---- MODULE Spec2Model ----
(***************************************************************************)
(* A model of the two customisations of mitral-leaflets-3dseg:             *)
(*   - callbacks/saving.py : EnhancedModelCheckpoint (checkpoint directory)*)
(*   - networks/core.py    : EnhancedLightningModule (metric buckets, the  *)
(*                           per-phase steps and step-ends, the optimizer) *)
(* Four specifications share the variables:                                *)
(*   SpecCkpt  the checkpoint callback's setup hook,                       *)
(*   SpecInit  construction of the module's metric buckets,                *)
(*   Spec      the train/validation/test step and step-end hooks,          *)
(*   SpecOptim configure_optimizers over shared configuration mappings.    *)
(***************************************************************************)
EXTENDS Integers, Sequences, FiniteSets, TLC

VARIABLES
    \* ---- EnhancedModelCheckpoint and the trainer it is set up with
    ctorDirpath,      \* the dirpath keyword given to __init__ (a string or None)
    dirpath,          \* self.dirpath
    default_root_dir, \* trainer.default_root_dir
    loggers,          \* trainer.loggers
    cwd,              \* the process's working directory
    ctorCwd,          \* the working directory __init__ ran in
    filesystem,       \* the directories and symbolic links of the file system
    setupCalls,       \* number of setup calls made so far
    parentSaw,        \* self.dirpath as the parent's setup found it, last call
    setupRaised,      \* the exception the last setup call ended with, or "none"
    \* ---- EnhancedLightningModule: construction
    metricsArg,       \* the metrics argument of __init__
    ctorState,        \* "new" before __init__, then "ok" or the exception raised
    metrics,          \* self.metrics: the buckets mtrain, mval, mtest
    \* ---- EnhancedLightningModule: the hooks of one batch (what _step computes,
    \* the predictions and the loss result, is an input of the model)
    hook,             \* the hook that ran last ("none" before the first)
    errs,             \* the loss result _step computed for the batch
    outs,             \* the mapping the step returned, as step-end left it
    logs,             \* the log / log_dict entries of the batch, in order
    calls,            \* the metric invocations of the last step-end, in order
    raised,           \* the exception the last hook ended with, or "none"
    \* ---- EnhancedLightningModule: configure_optimizers
    cfg,              \* the optimizer configuration mappings, by object
    modules,          \* the module instances: their mapping and their flag
    history,          \* the configure_optimizers calls made, in order
    max_epochs,       \* trainer.max_epochs
    nb_batches        \* len(train dataloader)

ckptVars == <<ctorDirpath, ctorCwd, dirpath, default_root_dir, loggers, cwd, filesystem,
              setupCalls, parentSaw, setupRaised>>
initVars == <<metricsArg, ctorState, metrics>>
stepVars == <<hook, errs, outs, logs, calls, raised>>
optVars == <<cfg, modules, history, max_epochs, nb_batches>>

vars == <<ckptVars, initVars, stepVars, optVars>>

-----------------------------------------------------------------------------
(* Python values: None, str and int, and str() of them.                     *)

PyNone == [t |-> "none"]
PyS(s) == [t |-> "str", v |-> s]
PyI(i) == [t |-> "int", v |-> i]

\* str(x), as used by str(name) and by the f-string f"{run_name}_{version}"
PyStr(x) == CASE x.t = "none" -> "None"
              [] x.t = "str"  -> x.v
              [] x.t = "int"  -> ToString(x.v)

\* c in s, for a character c
Contains(s, c) == \E i \in 1..Len(s) : SubSeq(s, i, i) = c

\* s[:1] == c
StartsWith(s, c) == Len(s) >= 1 /\ SubSeq(s, 1, 1) = c

RECURSIVE lstrip(_, _)
\* s.lstrip(c)
lstrip(s, c) == IF StartsWith(s, c) THEN lstrip(SubSeq(s, 2, Len(s)), c) ELSE s

RECURSIVE rstrip(_, _)
\* s.rstrip(c)
rstrip(s, c) ==
    IF Len(s) >= 1 /\ SubSeq(s, Len(s), Len(s)) = c
    THEN rstrip(SubSeq(s, 1, Len(s) - 1), c) ELSE s

\* s.find(c) + 1, for s that holds c
Find(s, c) ==
    CHOOSE i \in 1..Len(s) :
        SubSeq(s, i, i) = c /\ \A j \in 1..(i - 1) : SubSeq(s, j, j) # c

RECURSIVE split(_, _)
\* s.split(c)
split(s, c) ==
    IF ~Contains(s, c) THEN <<s>>
    ELSE <<SubSeq(s, 1, Find(s, c) - 1)>> \o split(SubSeq(s, Find(s, c) + 1, Len(s)), c)

RECURSIVE join(_, _)
\* c.join(pieces)
join(c, pieces) ==
    IF pieces = <<>> THEN ""
    ELSE IF Len(pieces) = 1 THEN pieces[1]
    ELSE pieces[1] \o c \o join(c, Tail(pieces))

-----------------------------------------------------------------------------
(* pathlib and posixpath.  A Path object is its root ("", "/" or "//") and  *)
(* its parts after the root.                                                *)

PurePath(r, ps) == [t |-> "path", root |-> r, parts |-> ps]

\* the root pathlib splits off a string and what follows it: a root of
\* exactly two slashes is kept, any other number of slashes is one
splitroot(part) ==
    LET stripped == lstrip(part, "/")
        n == Len(part) - Len(stripped)
    IN [root |-> IF n = 0 THEN "" ELSE IF n = 2 THEN "//" ELSE "/", rel |-> stripped]

KeepSeg(s) == s \notin {"", "."}

\* Path(string): the empty and the "." pieces are dropped, ".." is kept
Path(s) ==
    LET sr == splitroot(s)
    IN PurePath(sr.root, SelectSeq(split(sr.rel, "/"), KeepSeg))

\* Path(x) for x a str or already a Path
AsPath(x) == IF x.t = "path" THEN x ELSE Path(x.v)

\* str(p)
PathString(p) ==
    IF p.root = "" /\ p.parts = <<>> THEN "." ELSE p.root \o join("/", p.parts)

\* p.joinpath(s) for one string: an absolute s replaces everything before it
Join1(p, s) ==
    LET q == Path(s)
    IN IF q.root # "" THEN q ELSE PurePath(p.root, p.parts \o q.parts)

RECURSIVE joinpath(_, _)
\* p.joinpath(*args)
joinpath(p, args) ==
    IF args = <<>> THEN p ELSE joinpath(Join1(p, Head(args)), Tail(args))

\* os.path.isabs(s)
isabs(s) == StartsWith(s, "/")

\* os.path.join(a, b): an absolute b replaces a
os_join(a, b) ==
    IF isabs(b) THEN b
    ELSE IF a = "" \/ SubSeq(a, Len(a), Len(a)) = "/" THEN a \o b
    ELSE a \o "/" \o b

\* s.rfind("/") + 1
RFind(s) ==
    IF ~Contains(s, "/") THEN 0
    ELSE CHOOSE i \in 1..Len(s) :
             SubSeq(s, i, i) = "/" /\ \A j \in (i + 1)..Len(s) : SubSeq(s, j, j) # "/"

\* os.path.split(p): what precedes the last separator, without trailing
\* separators unless it is nothing else, and what follows it
os_split(p) ==
    LET i == RFind(p)
        head == SubSeq(p, 1, i)
    IN [head |-> IF lstrip(head, "/") # "" THEN rstrip(head, "/") ELSE head,
        tail |-> SubSeq(p, i + 1, Len(p))]

\* s.partition("/"): the text before the first separator, and the text after it
partition(s) ==
    IF Contains(s, "/")
    THEN [name |-> SubSeq(s, 1, Find(s, "/") - 1), rest |-> SubSeq(s, Find(s, "/") + 1, Len(s))]
    ELSE [name |-> s, rest |-> ""]

\* the last piece dropped
dirname(parts) == IF parts = <<>> THEN <<>> ELSE SubSeq(parts, 1, Len(parts) - 1)

RECURSIVE normpath_comps(_, _, _)
\* the loop of os.path.normpath over the pieces of a path: the empty and the
\* "." pieces are dropped, ".." drops the piece before it, is dropped itself
\* at the root and is kept at the start of a relative path
normpath_comps(comps, new_comps, rooted) ==
    IF comps = <<>> THEN new_comps
    ELSE LET comp == Head(comps)
         IN IF comp \in {"", "."} THEN normpath_comps(Tail(comps), new_comps, rooted)
            ELSE IF \/ comp # ".."
                    \/ (~rooted /\ new_comps = <<>>)
                    \/ (new_comps # <<>> /\ new_comps[Len(new_comps)] = "..")
            THEN normpath_comps(Tail(comps), Append(new_comps, comp), rooted)
            ELSE normpath_comps(Tail(comps), dirname(new_comps), rooted)

\* os.path.normpath(path): exactly two leading separators are kept, any other
\* number of them is one
normpath(path) ==
    LET initial_slashes == IF ~isabs(path) THEN ""
                           ELSE IF Len(path) - Len(lstrip(path, "/")) = 2 THEN "//"
                           ELSE "/"
        out == initial_slashes
                   \o join("/", normpath_comps(split(path, "/"), <<>>, initial_slashes # ""))
    IN IF out = "" THEN "." ELSE out

\* os.path.abspath(path) in the working directory wd
abspath(path, wd) == normpath(IF isabs(path) THEN path ELSE os_join(wd, path))

\* the file system as far as path lookup sees it: its directories (the root is
\* always one) and its symbolic links, each under the absolute path of its
\* own location; any other name is absent or a plain file
FileSystem(ds, ls) == [dirs |-> ds, links |-> ls]
Symlink(l, t) == [link |-> l, target |-> t]

\* the absolute path of a location given by its pieces
AbsText(parts) == "/" \o join("/", parts)

isdir(fs, parts) == parts = <<>> \/ AbsText(parts) \in fs.dirs
islink(fs, parts) == \E s \in fs.links : s.link = AbsText(parts)
linktarget(fs, parts) == (CHOOSE s \in fs.links : s.link = AbsText(parts)).target

\* the number of links the kernel follows in one lookup before it gives ELOOP
MAXSYMLINKS == 40

\* what the kernel's lookup meets at the first of the pieces rest, below the
\* directory cur
path_step(cur, rest, follow, n, followed, fs) ==
    IF rest = <<>> THEN "end"
    ELSE IF Head(rest) \in {"", "."} THEN "same"
    ELSE IF Head(rest) = ".." THEN "parent"
    ELSE IF isdir(fs, Append(cur, Head(rest))) THEN "directory"
    ELSE IF ~islink(fs, Append(cur, Head(rest))) THEN "absent"
    ELSE IF Tail(rest) = <<>> /\ ~follow THEN "last link"
    ELSE IF n >= MAXSYMLINKS \/ <<Append(cur, Head(rest)), Tail(rest)>> \in followed
    THEN "too many links"
    ELSE "link"

RECURSIVE path_walk(_, _, _, _, _, _)
\* the kernel's lookup of a path (path_resolution(7)) from the directory cur:
\* the pieces are taken one by one, ".." is the parent of the directory
\* reached, and a link is followed, its target taking its place before the
\* pieces that remain, from the link's own directory (from the root when the
\* target is absolute), unless the link is the last piece and follow is FALSE.
\* n counts the links followed: after MAXSYMLINKS of them the lookup ends with
\* ELOOP, which a link met again with the same pieces remaining (followed
\* holds them) always comes to.  A name that is no directory and no link ends
\* the lookup with ENOENT
path_walk(cur, rest, follow, n, followed, fs) ==
    CASE path_step(cur, rest, follow, n, followed, fs) = "end" ->
             [err |-> "ok", at |-> cur, link |-> FALSE]
      [] path_step(cur, rest, follow, n, followed, fs) = "same" ->
             path_walk(cur, Tail(rest), follow, n, followed, fs)
      [] path_step(cur, rest, follow, n, followed, fs) = "parent" ->
             path_walk(dirname(cur), Tail(rest), follow, n, followed, fs)
      [] path_step(cur, rest, follow, n, followed, fs) = "directory" ->
             path_walk(Append(cur, Head(rest)), Tail(rest), follow, n, followed, fs)
      [] path_step(cur, rest, follow, n, followed, fs) = "absent" ->
             [err |-> "ENOENT", at |-> Append(cur, Head(rest)), link |-> FALSE]
      [] path_step(cur, rest, follow, n, followed, fs) = "last link" ->
             [err |-> "ok", at |-> Append(cur, Head(rest)), link |-> TRUE]
      [] path_step(cur, rest, follow, n, followed, fs) = "too many links" ->
             [err |-> "ELOOP", at |-> Append(cur, Head(rest)), link |-> FALSE]
      [] path_step(cur, rest, follow, n, followed, fs) = "link" ->
             path_walk(IF isabs(linktarget(fs, Append(cur, Head(rest)))) THEN <<>> ELSE cur,
                       split(linktarget(fs, Append(cur, Head(rest))), "/") \o Tail(rest),
                       follow, n + 1,
                       followed \cup {<<Append(cur, Head(rest)), Tail(rest)>>}, fs)

\* the lookup of the path text s by a process whose working directory is wd
lookup(s, follow, wd, fs) ==
    path_walk(IF isabs(s) THEN <<>> ELSE normpath_comps(split(wd, "/"), <<>>, TRUE),
              split(s, "/"), follow, 0, {}, fs)

\* os.lstat(path) succeeds and S_ISLNK holds of its mode
lstat_is_link(path, wd, fs) ==
    LET st == lookup(path, FALSE, wd, fs) IN st.err = "ok" /\ st.link

\* os.readlink(path) of a path that is a link
readlink(path, wd, fs) == linktarget(fs, lookup(path, FALSE, wd, fs).at)

\* the errno of os.stat(path), "ok" when it succeeds
stat_errno(path, wd, fs) == lookup(path, TRUE, wd, fs).err

\* the dict seen of posixpath._joinrealpath: path texts of links, each with
\* None while the link is being resolved and with its resolved path afterwards
SeenHas(seen, k) == \E e \in seen : e.key = k
SeenGet(seen, k) == (CHOOSE e \in seen : e.key = k).val
SeenPut(seen, k, v) == {e \in seen : e.key # k} \cup {[key |-> k, val |-> v]}

\* the branch the while loop of posixpath._joinrealpath takes for the first
\* name of rest
realpath_step(path, rest, seen, wd, fs) ==
    IF rest = "" THEN "return"
    ELSE IF partition(rest).name \in {"", "."} THEN "current dir"
    ELSE IF partition(rest).name = ".." THEN "parent dir"
    ELSE IF ~lstat_is_link(os_join(path, partition(rest).name), wd, fs) THEN "not a link"
    ELSE IF ~SeenHas(seen, os_join(path, partition(rest).name)) THEN "resolve the link"
    ELSE IF SeenGet(seen, os_join(path, partition(rest).name)) # PyNone THEN "cached value"
    ELSE "symlink loop"

\* the parent dir branch: path without its last name, a path that ends with
\* ".." (or is empty) getting one more ".." instead
pardir(path) ==
    IF path = "" THEN ".."
    ELSE IF os_split(path).tail = ".."
    THEN os_join(os_join(os_split(path).head, ".."), "..")
    ELSE os_split(path).head

RECURSIVE joinrealpath(_, _, _, _, _)
RECURSIVE joinrealpath_while(_, _, _, _, _)
\* the while loop of posixpath._joinrealpath (strict is False): path is the
\* text resolved so far, rest the text still to take, name by name.  A link is
\* replaced by its resolved target; a link met again while it is being
\* resolved is a loop, and the function gives up: ok is FALSE and path is
\* os.path.join(newpath, rest), joined with the rest of every level
joinrealpath_while(path, rest, seen, wd, fs) ==
    CASE realpath_step(path, rest, seen, wd, fs) = "return" ->
             [path |-> path, ok |-> TRUE, seen |-> seen]
      [] realpath_step(path, rest, seen, wd, fs) = "current dir" ->
             joinrealpath_while(path, partition(rest).rest, seen, wd, fs)
      [] realpath_step(path, rest, seen, wd, fs) = "parent dir" ->
             joinrealpath_while(pardir(path), partition(rest).rest, seen, wd, fs)
      [] realpath_step(path, rest, seen, wd, fs) = "not a link" ->
             joinrealpath_while(os_join(path, partition(rest).name), partition(rest).rest,
                                seen, wd, fs)
      [] realpath_step(path, rest, seen, wd, fs) = "cached value" ->
             joinrealpath_while(SeenGet(seen, os_join(path, partition(rest).name)).v,
                                partition(rest).rest, seen, wd, fs)
      [] realpath_step(path, rest, seen, wd, fs) = "symlink loop" ->
             [path |-> os_join(os_join(path, partition(rest).name), partition(rest).rest),
              ok |-> FALSE, seen |-> seen]
      [] realpath_step(path, rest, seen, wd, fs) = "resolve the link" ->
             \* r is what the call on the link's target returns
             CHOOSE out \in
                 { IF ~r.ok
                   THEN [path |-> os_join(r.path, partition(rest).rest), ok |-> FALSE,
                         seen |-> r.seen]
                   ELSE joinrealpath_while(
                            r.path, partition(rest).rest,
                            SeenPut(r.seen, os_join(path, partition(rest).name), PyS(r.path)),
                            wd, fs)
                     : r \in { joinrealpath(
                                   path, readlink(os_join(path, partition(rest).name), wd, fs),
                                   SeenPut(seen, os_join(path, partition(rest).name), PyNone),
                                   wd, fs) } } : TRUE

\* posixpath._joinrealpath(path, rest, strict=False, seen): an absolute rest
\* starts over from the root
joinrealpath(path, rest, seen, wd, fs) ==
    IF isabs(rest) THEN joinrealpath_while("/", SubSeq(rest, 2, Len(rest)), seen, wd, fs)
    ELSE joinrealpath_while(path, rest, seen, wd, fs)

\* os.path.realpath(filename)
realpath(filename, wd, fs) == abspath(joinrealpath("", filename, {}, wd, fs).path, wd)

\* an exception in place of a value
PyRaise(exc) == [t |-> "raise", exc |-> exc]

\* p.resolve(): the Path of os.path.realpath(p); when the kernel's lookup of
\* that path ends with ELOOP, a RuntimeError
resolve(p, wd, fs) ==
    IF p.t = "raise" THEN p
    ELSE LET s == realpath(PathString(p), wd, fs)
         IN IF stat_errno(s, wd, fs) = "ELOOP" THEN PyRaise("RuntimeError") ELSE Path(s)

\* the environment's HOME and its password database: the name and the home
\* directory of every account of the machine the program runs on
HOME == "/root"

PwEntry(n, d) == [pw_name |-> n, pw_dir |-> d]

Passwd ==
    { PwEntry("root", "/root"), PwEntry("daemon", "/usr/sbin"), PwEntry("bin", "/bin"),
      PwEntry("sys", "/dev"), PwEntry("sync", "/bin"), PwEntry("games", "/usr/games"),
      PwEntry("man", "/var/cache/man"), PwEntry("lp", "/var/spool/lpd"),
      PwEntry("mail", "/var/mail"), PwEntry("news", "/var/spool/news"),
      PwEntry("uucp", "/var/spool/uucp"), PwEntry("proxy", "/bin"),
      PwEntry("www-data", "/var/www"), PwEntry("backup", "/var/backups"),
      PwEntry("list", "/var/list"), PwEntry("irc", "/run/ircd"),
      PwEntry("_apt", "/nonexistent"), PwEntry("nobody", "/nonexistent"),
      PwEntry("systemd-network", "/"), PwEntry("systemd-timesync", "/"),
      PwEntry("messagebus", "/nonexistent"), PwEntry("polkitd", "/nonexistent"),
      PwEntry("claudeuser", "/home/claudeuser") }

\* os.path.expanduser of one piece that starts with "~": "~" is HOME, "~user"
\* is the user's home directory, and an unknown user leaves the piece as it is
os_expanduser(piece) ==
    LET user == SubSeq(piece, 2, Len(piece))
        userhome == IF user = "" THEN HOME
                    ELSE IF \E e \in Passwd : e.pw_name = user
                    THEN (CHOOSE e \in Passwd : e.pw_name = user).pw_dir
                    ELSE piece
    IN IF StartsWith(userhome, "~") THEN userhome
       ELSE IF rstrip(userhome, "/") = "" THEN "/" ELSE rstrip(userhome, "/")

\* p.expanduser(): only a relative path whose first piece starts with "~"
\* changes; a home directory that cannot be determined is a RuntimeError
expanduser(p) ==
    IF p.t = "raise" THEN p
    ELSE IF p.root = "" /\ p.parts # <<>> /\ StartsWith(Head(p.parts), "~")
    THEN LET homedir == os_expanduser(Head(p.parts))
         IN IF StartsWith(homedir, "~") THEN PyRaise("RuntimeError")
            ELSE PurePath(Path(homedir).root, Path(homedir).parts \o Tail(p.parts))
    ELSE p

-----------------------------------------------------------------------------
(* ModelCheckpoint, the parent class (pytorch_lightning.callbacks)          *)

\* the protocol fsspec reads off a path: what precedes "://" when that is more
\* than one character, "file" otherwise
protocol(s) ==
    LET at == {i \in 1..(Len(s) - 2) : SubSeq(s, i, i + 2) = "://"}
        first == CHOOSE i \in at : \A j \in at : i <= j
    IN IF at # {} /\ first > 2 THEN SubSeq(s, 1, first - 1) ELSE "file"

\* ModelCheckpoint.__init__(dirpath=d): a directory that is given and local is
\* stored as os.path.realpath(d), taken in the working directory of the moment
ModelCheckpoint_init(d, wd, fs) ==
    IF d = PyNone \/ d.v = "" \/ protocol(d.v) \notin {"file", "local"} THEN d
    ELSE PyS(realpath(d.v, wd, fs))

\* ModelCheckpoint.setup(trainer, pl_module, stage), as to self.dirpath: a
\* directory that is set is kept; one that is None becomes the parent's own
\* default, <save_dir>/<name>/<version>/checkpoints of the first logger
ModelCheckpoint_setup(d, root, lgs) ==
    IF d # PyNone THEN d
    ELSE IF Len(lgs) > 0
    THEN PyS(os_join(os_join(os_join(
                 IF lgs[1].save_dir # PyNone THEN lgs[1].save_dir.v ELSE root.v,
                 PyStr(lgs[1].name)),
                 IF lgs[1].version.t = "str" THEN lgs[1].version.v
                 ELSE "version_" \o PyStr(lgs[1].version)),
                 "checkpoints"))
    ELSE PyS(os_join(root.v, "checkpoints"))

-----------------------------------------------------------------------------
(* EnhancedModelCheckpoint                                                  *)

\* the variant of __resolve_ckpt_dir that forgets an already set directory
resolve_ckpt_dir_recompute(selfDirpath, root, lgs, wd, fs) ==
    LET base == IF Len(lgs) > 0 /\ lgs[1].save_dir # PyNone
                THEN Path(lgs[1].save_dir.v) ELSE Path(root.v)
        withRun == IF Len(lgs) > 0
                   THEN joinpath(base, <<PyStr(lgs[1].name),
                                         PyStr(lgs[1].run_name) \o "_"
                                             \o PyStr(lgs[1].version)>>)
                   ELSE base
    IN expanduser(resolve(joinpath(withRun, <<"checkpoints">>), wd, fs))

\* the variant of __resolve_ckpt_dir that appends "checkpoints" to an override too
resolve_ckpt_dir_append(selfDirpath, root, lgs, wd, fs) ==
    IF selfDirpath # PyNone
    THEN expanduser(resolve(joinpath(expanduser(resolve(AsPath(selfDirpath), wd, fs)),
                                     <<"checkpoints">>), wd, fs))
    ELSE resolve_ckpt_dir_recompute(selfDirpath, root, lgs, wd, fs)

\* EnhancedModelCheckpoint.__resolve_ckpt_dir(trainer)
resolve_ckpt_dir(selfDirpath, root, lgs, wd, fs) ==
    LET save_dir0 ==
            IF selfDirpath # PyNone
            THEN expanduser(resolve(AsPath(selfDirpath), wd, fs))
            ELSE LET base == IF Len(lgs) > 0 /\ lgs[1].save_dir # PyNone
                             THEN Path(lgs[1].save_dir.v)
                             ELSE Path(root.v)
                     withRun ==
                         IF Len(lgs) > 0
                         THEN joinpath(base,
                                  <<PyStr(lgs[1].name),
                                    PyStr(lgs[1].run_name) \o "_"
                                        \o PyStr(lgs[1].version)>>)
                         ELSE base
                 IN joinpath(withRun, <<"checkpoints">>)
    IN expanduser(resolve(save_dir0, wd, fs))

RECURSIVE SeqsUpTo(_, _)
SeqsUpTo(S, n) ==
    IF n = 0 THEN {<<>>}
    ELSE LET shorter == SeqsUpTo(S, n - 1)
         IN shorter \cup {Append(s, x) : s \in shorter, x \in S}

\* ---- the inputs of the model
\* no module is under construction
InitIdle ==
    /\ metricsArg = <<>>
    /\ ctorState = "new"
    /\ metrics = <<>>

\* no checkpoint callback is involved
CkptIdle ==
    /\ ctorDirpath = PyNone
    /\ ctorCwd = ""
    /\ dirpath = PyNone
    /\ default_root_dir = PyNone
    /\ loggers = <<>>
    /\ cwd = ""
    /\ filesystem = FileSystem({}, {})
    /\ setupCalls = 0
    /\ parentSaw = PyNone
    /\ setupRaised = "none"

\* no batch is being processed
StepIdle ==
    /\ hook = "none"
    /\ errs = <<>>
    /\ outs = <<>>
    /\ logs = <<>>
    /\ calls = <<>>
    /\ raised = "none"

\* no optimizer is being configured
OptIdle ==
    /\ cfg = <<>>
    /\ modules = <<>>
    /\ history = <<>>
    /\ max_epochs = 0
    /\ nb_batches = 0

MaxLoggers == 2
MaxSetups == 2

\* overrides: absolute, relative through a link, with ~,
\* into a loop of links (a/ck) and onto a link whose target crosses the loop (k)
DirStrings == { "/data", "out/../runs", "~/ck", "a/ck", "k" }

RootStrings == { "/data", "./work", "k" }

WorkDirs == { "/home/u", "/mnt/job" }

Directories ==
    { "/home", "/home/u", "/mnt", "/mnt/job", "/mnt/real", "/mnt/real/deep", "/mnt/store" }

\* a file system without links; one where out in either working directory and
\* the directory /data are links; and one where a and b are links to each
\* other (a loop) and k is a link whose target goes through a
FileSystems ==
    { FileSystem(Directories, {}),
      FileSystem(Directories,
                 { Symlink("/home/u/out", "/mnt/real/deep"),
                   Symlink("/mnt/job/out", "../real/deep"),
                   Symlink("/data", "/mnt/store") }),
      FileSystem(Directories,
                 { Symlink("/home/u/a", "/mnt/job/b"),
                   Symlink("/mnt/job/b", "/home/u/a"),
                   Symlink("/home/u/k", "a///x") }) }

Logger(sd, n, r, v) == [save_dir |-> sd, name |-> n, run_name |-> r, version |-> v]

\* a logger with a save_dir, a name of two pieces and a numeric version, and
\* one without save_dir whose name starts with a separator
LoggerSet ==
    { Logger(PyS("/logs"), PyS("team/proj"), PyS("sunny-sky"), PyI(3)),
      Logger(PyNone, PyS("/abs"), PyS("calm-sea"), PyS("a1b2")) }

LoggerLists == SeqsUpTo(LoggerSet, MaxLoggers)

\* EnhancedModelCheckpoint(**kwargs), on a trainer in any configuration: the
\* constructor hands its keywords to the parent's
InitCkpt ==
    /\ ctorDirpath \in {PyS(s) : s \in DirStrings} \cup {PyNone}
    /\ default_root_dir \in {PyS(s) : s \in RootStrings}
    /\ loggers \in LoggerLists
    /\ cwd \in WorkDirs
    /\ ctorCwd = cwd
    /\ filesystem \in FileSystems
    /\ dirpath = ModelCheckpoint_init(ctorDirpath, cwd, filesystem)
    /\ setupCalls = 0
    /\ parentSaw = PyNone
    /\ setupRaised = "none"
    /\ InitIdle /\ StepIdle /\ OptIdle

\* EnhancedModelCheckpoint.setup(trainer, pl_module, stage): the directory is
\* assigned, then the parent's setup runs on it; an exception of the
\* resolution ends the call before either
setup ==
    /\ setupCalls < MaxSetups
    /\ \E d \in {resolve_ckpt_dir(dirpath, default_root_dir, loggers, cwd, filesystem)} :
          IF d.t = "raise"
          THEN /\ setupRaised' = d.exc
               /\ UNCHANGED <<dirpath, parentSaw>>
          ELSE /\ parentSaw' = d
               /\ dirpath' = ModelCheckpoint_setup(d, default_root_dir, loggers)
               /\ setupRaised' = "none"
    /\ setupCalls' = setupCalls + 1
    /\ UNCHANGED <<ctorDirpath, ctorCwd, default_root_dir, loggers, cwd, filesystem, initVars, stepVars, optVars>>

\* between two setup calls the run's loggers are replaced
SetLoggers ==
    /\ \E l \in LoggerLists : l # loggers /\ loggers' = l
    /\ UNCHANGED <<ctorDirpath, ctorCwd, dirpath, default_root_dir, cwd, filesystem, setupCalls, parentSaw, setupRaised, initVars, stepVars, optVars>>

\* ... or its default root
SetDefaultRoot ==
    /\ \E r \in RootStrings : PyS(r) # default_root_dir /\ default_root_dir' = PyS(r)
    /\ UNCHANGED <<ctorDirpath, ctorCwd, dirpath, loggers, cwd, filesystem, setupCalls, parentSaw, setupRaised, initVars, stepVars, optVars>>

\* ... or the working directory
Chdir ==
    /\ \E w \in WorkDirs : w # cwd /\ cwd' = w
    /\ UNCHANGED <<ctorDirpath, ctorCwd, dirpath, default_root_dir, loggers, filesystem, setupCalls, parentSaw, setupRaised, initVars, stepVars, optVars>>

NextCkpt == setup \/ SetLoggers \/ SetDefaultRoot \/ Chdir

SpecCkpt == InitCkpt /\ [][NextCkpt]_vars

-----------------------------------------------------------------------------
(* Claims about the checkpoint directory                                    *)

\* the path a string names, made absolute as Path.resolve() makes a path
\* absolute: taken from the working directory when relative, links followed
MadeAbsolute(s, wd, fs) == resolve(Path(s), wd, fs)

\* resolving the path a string names runs into a loop of symbolic links
MeetsLoop(s, wd, fs) == ~joinrealpath("", PathString(Path(s)), {}, wd, fs).ok

\* no symbolic link of the file system is part of a loop or leads into one
LoopFree(fs) == \A l \in fs.links : stat_errno(l.link, "/", fs) # "ELOOP"

\* the base of the default directory: the first logger's save_dir when it has
\* one, the default root otherwise
BaseString(root, lgs) ==
    IF Len(lgs) > 0 /\ lgs[1].save_dir # PyNone THEN lgs[1].save_dir.v ELSE root.v

\* <experiment-name>_<version> of the first logger
RunString(lgs) == PyStr(lgs[1].run_name) \o "_" \o PyStr(lgs[1].version)

\* the string <base>/<logger-name>/<experiment-name>_<version>/checkpoints of
\* the first logger, or <default-root>/checkpoints without a logger
DefaultDirString(root, lgs) ==
    IF Len(lgs) > 0
    THEN BaseString(root, lgs) \o "/" \o PyStr(lgs[1].name) \o "/" \o RunString(lgs)
             \o "/checkpoints"
    ELSE root.v \o "/checkpoints"

\* C1: a setup call that finds no directory configured sets the directory to
\* <base>/<logger-name>/<experiment-name>_<version>/checkpoints, base being
\* the first logger's save_dir when it has one and the default root otherwise,
\* whatever the logger's metadata, and to <default-root>/checkpoints when no
\* logger is attached; it raises nothing.  (Stated for file systems without a
\* loop of links, the path taken in the absolute form setup stores.)
C1_DefaultDirectory ==
    [][ (setupCalls' = setupCalls + 1 /\ dirpath = PyNone /\ LoopFree(filesystem))
        => /\ setupRaised' = "none"
           /\ dirpath' = MadeAbsolute(DefaultDirString(default_root_dir, loggers),
                                      cwd, filesystem) ]_vars

\* C2 as claimed: with a directory override P configured, every setup call
\* ends with the directory equal to P made absolute (in the working directory
\* the callback was constructed in), whatever the loggers and the default root
\* are, and raises nothing.
C2_OverrideWins ==
    [][ (setupCalls' = setupCalls + 1 /\ ctorDirpath # PyNone)
        => /\ setupRaised' = "none"
           /\ dirpath' = MadeAbsolute(ctorDirpath.v, ctorCwd, filesystem) ]_vars

\* C2 amended: as claimed whenever resolving P runs into no loop of symbolic
\* links; and a setup call that raises (the RuntimeError of a loop) leaves the
\* directory as it was.
C2_OverrideWinsLoopFree ==
    [][ (setupCalls' = setupCalls + 1 /\ ctorDirpath # PyNone)
        => /\ ~MeetsLoop(ctorDirpath.v, ctorCwd, filesystem)
                 => /\ setupRaised' = "none"
                    /\ dirpath' = MadeAbsolute(ctorDirpath.v, ctorCwd, filesystem)
           /\ setupRaised' # "none"
                 => /\ setupRaised' = "RuntimeError"
                    /\ MeetsLoop(ctorDirpath.v, ctorCwd, filesystem)
                    /\ dirpath' = dirpath ]_vars

\* a callback constructed with a relative override that crosses a link, set up
\* in another working directory on a run that has loggers
C2_Witness ==
    /\ setupCalls >= 1
    /\ ctorDirpath = PyS("out/../runs")
    /\ ctorCwd = "/home/u"
    /\ cwd = "/mnt/job"
    /\ Len(loggers) > 0
    /\ dirpath = PurePath("/", <<"mnt", "real", "runs">>)

\* C10 as claimed: from the first setup call on, further setup calls leave the
\* directory as the first call left it, whatever has become of the loggers,
\* the default root or the working directory; and in every call that reaches
\* the parent's setup, the parent finds the directory already assigned.
C10_SetupIdempotent ==
    [][ /\ (setupCalls >= 1 => dirpath' = dirpath)
        /\ (setupCalls' = setupCalls + 1 /\ setupRaised' = "none")
              => (dirpath' # PyNone /\ parentSaw' = dirpath') ]_vars

\* C10 amended: as claimed on a file system without a loop of symbolic links,
\* where no setup call raises; on any file system, a call that raises leaves
\* the directory and the parent untouched, and a call that does not raise has
\* the directory assigned when the parent's setup runs.
C10_SetupIdempotentLoopFree ==
    [][ /\ (setupCalls >= 1 /\ dirpath' # dirpath) => ~LoopFree(filesystem)
        /\ (setupCalls' = setupCalls + 1 /\ setupRaised' # "none") => ~LoopFree(filesystem)
        /\ (setupCalls' = setupCalls + 1 /\ setupRaised' = "none")
              => (dirpath' # PyNone /\ parentSaw' = dirpath')
        /\ (setupCalls' = setupCalls + 1 /\ setupRaised' # "none")
              => (dirpath' = dirpath /\ parentSaw' = parentSaw) ]_vars

\* after the last setup call, on a file system with links and none in a loop,
\* the directory is not what the run's present loggers, default root and
\* working directory would give
C10_Witness ==
    /\ setupCalls = MaxSetups
    /\ ctorDirpath = PyNone
    /\ setupRaised = "none"
    /\ filesystem.links # {}
    /\ LoopFree(filesystem)
    /\ dirpath # resolve_ckpt_dir(PyNone, default_root_dir, loggers, cwd, filesystem)

-----------------------------------------------------------------------------
(* EnhancedLightningModule.__init__ and its metric buckets                  *)

\* the classes of torchmetrics that the model uses
TorchMetrics == {"Accuracy", "Dice"}

\* the keys of metrics.MONAI_METRICS
MONAI_METRICS == {"HausdorffDistance", "SurfaceDistance"}

\* all_metrics = dict(getmembers(torchmetrics)); all_metrics.update(MONAI_METRICS)
all_metrics == TorchMetrics \cup MONAI_METRICS

\* a metric specification {"name": n, "display_name": d}
MetricSpec(n, d) == [name |-> n, display_name |-> d]

\* the metric object build_metric makes for the i-th specification
build_metric(name, i) ==
    [cls |-> name,
     lib |-> IF name \in MONAI_METRICS THEN "monai" ELSE "torchmetrics",
     spec |-> i]

RECURSIVE KeyIndex(_, _, _)
\* the position of key k in an ordered mapping, 0 when it has none
KeyIndex(d, k, i) ==
    IF i > Len(d) THEN 0 ELSE IF d[i].key = k THEN i ELSE KeyIndex(d, k, i + 1)

HasKey(d, k) == KeyIndex(d, k, 1) # 0

Keys(d) == {d[i].key : i \in 1..Len(d)}

\* ModuleDict.update({k: v}): a present key keeps its place, a new one is appended
DictUpdate(d, k, v) ==
    IF HasKey(d, k)
    THEN [d EXCEPT ![KeyIndex(d, k, 1)] = [key |-> k, val |-> v]]
    ELSE Append(d, [key |-> k, val |-> v])

\* the names hasattr finds on an nn.ModuleDict: the attributes of object, the
\* fields and methods of nn.Module and the mapping methods of nn.ModuleDict
\* ("train" is the one the comment in _update_metrics speaks of)
ModuleDictAttrs ==
    { "__class__", "__delattr__", "__dict__", "__dir__", "__doc__", "__eq__",
      "__format__", "__ge__", "__getattribute__", "__getstate__", "__gt__",
      "__hash__", "__init__", "__init_subclass__", "__le__", "__lt__", "__module__",
      "__ne__", "__new__", "__reduce__", "__reduce_ex__", "__repr__", "__setattr__",
      "__sizeof__", "__str__", "__subclasshook__", "__weakref__", "__annotations__",
      "dump_patches", "_version", "training", "_parameters", "_buffers",
      "_non_persistent_buffers_set", "_backward_pre_hooks", "_backward_hooks",
      "_is_full_backward_hook", "_forward_hooks", "_forward_hooks_with_kwargs",
      "_forward_hooks_always_called", "_forward_pre_hooks",
      "_forward_pre_hooks_with_kwargs", "_state_dict_hooks",
      "_load_state_dict_pre_hooks", "_state_dict_pre_hooks",
      "_load_state_dict_post_hooks", "_modules", "call_super_init",
      "_compiled_call_impl", "forward", "T_destination", "register_buffer",
      "register_parameter", "add_module", "register_module", "get_submodule",
      "set_submodule", "get_parameter", "get_buffer", "get_extra_state",
      "set_extra_state", "_apply", "apply", "cuda", "ipu", "xpu", "mtia", "cpu",
      "type", "float", "double", "half", "bfloat16", "to_empty", "to",
      "register_full_backward_pre_hook", "register_backward_hook",
      "register_full_backward_hook", "_get_backward_hooks",
      "_get_backward_pre_hooks", "_maybe_warn_non_full_backward_hook",
      "register_forward_pre_hook", "register_forward_hook", "_slow_forward",
      "_wrapped_call_impl", "_call_impl", "__call__", "__setstate__", "__getattr__",
      "_register_state_dict_hook", "register_state_dict_post_hook",
      "register_state_dict_pre_hook", "_save_to_state_dict", "state_dict",
      "_register_load_state_dict_pre_hook", "register_load_state_dict_pre_hook",
      "register_load_state_dict_post_hook", "_load_from_state_dict",
      "load_state_dict", "_named_members", "parameters", "named_parameters",
      "buffers", "named_buffers", "children", "named_children", "modules",
      "named_modules", "train", "eval", "requires_grad_", "zero_grad",
      "share_memory", "_get_name", "extra_repr", "_replicate_for_data_parallel",
      "compile", "__getitem__", "__setitem__", "__delitem__", "__len__", "__iter__",
      "__contains__", "clear", "pop", "keys", "items", "values", "update" }

\* nn.Module.add_module's test of a key: a key the mapping does not hold yet
\* must not be an attribute of the object, and no key holds "." or is empty
key_error(d, k) ==
    \/ (k \in ModuleDictAttrs /\ ~HasKey(d, k))
    \/ Contains(k, ".")
    \/ k = ""

Modes == <<"mtrain", "mval", "mtest">>

EmptyBuckets == [mtrain |-> <<>>, mval |-> <<>>, mtest |-> <<>>]

\* the key of a specification in a bucket
display_name(m, mode) ==
    IF mode = "mval" THEN "v_" \o m.display_name ELSE m.display_name

\* the variant that leaves no metric out of the train bucket
skip_metric_never(m, mode) == FALSE

\* whether _init_metrics leaves a specification out of a bucket
skip_metric(m, mode) == mode = "mtrain" /\ m.name \in MONAI_METRICS

RECURSIVE init_metrics_loop(_, _, _, _)
\* the two nested loops of _init_metrics, from specification i and mode j on:
\* an unknown metric name and a key the bucket rejects end them with a KeyError
init_metrics_loop(ms, i, j, buckets) ==
    IF i > Len(ms) THEN [state |-> "ok", metrics |-> buckets]
    ELSE IF j > Len(Modes) THEN init_metrics_loop(ms, i + 1, 1, buckets)
    ELSE LET m == ms[i]
             mode == Modes[j]
         IN IF skip_metric(m, mode)
            THEN init_metrics_loop(ms, i, j + 1, buckets)
            ELSE IF m.name \notin all_metrics
            THEN [state |-> "KeyError", metrics |-> buckets]
            ELSE IF key_error(buckets[mode], display_name(m, mode))
            THEN [state |-> "KeyError", metrics |-> buckets]
            ELSE init_metrics_loop(ms, i, j + 1,
                     [buckets EXCEPT ![mode] =
                          DictUpdate(@, display_name(m, mode), build_metric(m.name, i))])

\* EnhancedLightningModule._init_metrics(metrics)
init_metrics(ms) == init_metrics_loop(ms, 1, 1, EmptyBuckets)

\* ---- the inputs of the model
MaxMetrics == 2

MetricNames == all_metrics \cup {"NoSuchMetric"}

DisplayNames == {"acc", "dsc", "hdf95", "train", "a.b"}

MetricSpecs == {MetricSpec(n, d) : n \in MetricNames, d \in DisplayNames}

MetricLists == SeqsUpTo(MetricSpecs, MaxMetrics)

\* a caller about to construct the module from a list of specifications
InitInit ==
    /\ metricsArg \in MetricLists
    /\ ctorState = "new"
    /\ metrics = <<>>
    /\ StepIdle /\ OptIdle /\ CkptIdle

\* EnhancedLightningModule.__init__(metrics=metricsArg)
Construct ==
    /\ ctorState = "new"
    /\ LET r == init_metrics(metricsArg)
       IN /\ ctorState' = r.state
          /\ metrics' = r.metrics
    /\ UNCHANGED <<metricsArg, ckptVars, stepVars, optVars>>

NextInit == Construct

SpecInit == InitInit /\ [][NextInit]_vars

-----------------------------------------------------------------------------
(* Claims about the metric buckets                                          *)

\* the bucket holds the metric built for specification i under key k
Holds(bucket, k, i) ==
    /\ HasKey(bucket, k)
    /\ bucket[KeyIndex(bucket, k, 1)].val = build_metric(metricsArg[i].name, i)

\* what C3 says of the i-th specification
HeldAsClaimed(i) ==
    LET d == metricsArg[i].display_name
    IN /\ Holds(metrics.mval, "v_" \o d, i)
       /\ Holds(metrics.mtest, d, i)
       /\ IF metricsArg[i].name \in MONAI_METRICS
          THEN ~HasKey(metrics.mtrain, d)
          ELSE Holds(metrics.mtrain, d, i)

\* C3 as claimed: a constructed module has exactly the buckets train,
\* validation and test; every specification with display name d is held by the
\* validation bucket under v_<d> and by the test bucket under d, and by the
\* train bucket under d unless its name is a MONAI metric, when the train
\* bucket has no d.
C3_Buckets ==
    ctorState = "ok" =>
        /\ DOMAIN metrics = {"mtrain", "mval", "mtest"}
        /\ \A i \in 1..Len(metricsArg) : HeldAsClaimed(i)

\* no two specifications of the list have the same display name
DistinctDisplayNames ==
    \A i, j \in 1..Len(metricsArg) :
        i # j => metricsArg[i].display_name # metricsArg[j].display_name

\* C3 amended: a constructed module has exactly the three buckets, none with
\* more entries than there are specifications; when the display names of the
\* list are pairwise distinct, every specification is held as claimed.
C3_BucketsDistinct ==
    ctorState = "ok" =>
        /\ DOMAIN metrics = {"mtrain", "mval", "mtest"}
        /\ \A b \in DOMAIN metrics : Len(metrics[b]) <= Len(metricsArg)
        /\ DistinctDisplayNames => \A i \in 1..Len(metricsArg) : HeldAsClaimed(i)

\* a module built from an ordinary and a MONAI specification
C3_Witness ==
    /\ ctorState = "ok"
    /\ metricsArg = <<MetricSpec("Accuracy", "acc"), MetricSpec("HausdorffDistance", "hdf95")>>
    /\ Keys(metrics.mtrain) = {"acc"}
    /\ Keys(metrics.mval) = {"v_acc", "v_hdf95"}
    /\ Keys(metrics.mtest) = {"acc", "hdf95"}

-----------------------------------------------------------------------------
(* Tensors: a tensor is the sequence of its elements, each a fraction n/d in *)
(* lowest terms; a scalar is a tensor of one element.                        *)

RECURSIVE GCD(_, _)
GCD(a, b) == IF b = 0 THEN a ELSE GCD(b, a % b)

Abs(x) == IF x < 0 THEN -x ELSE x

Rat(n, d) == LET g == GCD(Abs(n), d) IN [n |-> n \div g, d |-> d \div g]

RatAdd(x, y) == Rat(x.n * y.d + y.n * x.d, x.d * y.d)

RECURSIVE TensorSum(_)
TensorSum(v) == IF v = <<>> THEN Rat(0, 1) ELSE RatAdd(Head(v), TensorSum(Tail(v)))

\* tensor.mean(): the sum of the elements over their number, a scalar
mean(v) == LET sum == TensorSum(v) IN <<Rat(sum.n, sum.d * Len(v))>>

numel(v) == Len(v)

PyTensor(v) == [t |-> "tensor", v |-> v]
PyDict(items) == [t |-> "dict", items |-> items]

Item(k, v) == [key |-> k, val |-> v]

\* d[k] of an ordered mapping that has k
Lookup(d, k) == d[KeyIndex(d, k, 1)].val

-----------------------------------------------------------------------------
(* EnhancedLightningModule: logging the loss, the steps                     *)

\* the batch's target y, its cast y.to(torch.bool), and the predictions
Target == [t |-> "target", dtype |-> "float"]
ToBool(y) == [y EXCEPT !.dtype = "bool"]
Preds == [t |-> "preds"]

\* one entry handed to self.log / self.log_dict
LogEntry(k, v, pb, os, sd) ==
    [key |-> k, value |-> v, prog_bar |-> pb, on_step |-> os, on_epoch |-> TRUE,
     sync_dist |-> sd]

\* 'v' in name
ContainsV(name) == Contains(name, "v")

\* {f"v_{k}": v for k, v in errs.items()}
PrefixItems(items) == [i \in 1..Len(items) |-> Item("v_" \o items[i].key, items[i].val)]

\* EnhancedLightningModule._log_errs(errs, name, on_step): the entries it logs,
\* what it returns, and the exception it ends with
log_errs(e, name, on_step) ==
    IF e.t = "dict"
    THEN LET items == IF ContainsV(name) THEN PrefixItems(e.items) ELSE e.items
             logged == [i \in 1..Len(items) |->
                           LogEntry(items[i].key, items[i].val, TRUE, on_step, FALSE)]
         IN IF HasKey(items, name)
            THEN [logs |-> logged, ret |-> PyTensor(Lookup(items, name)), raised |-> "none"]
            ELSE [logs |-> logged, ret |-> PyNone, raised |-> "KeyError"]
    ELSE [logs |-> <<LogEntry(name, e.v, TRUE, on_step, TRUE)>>,
          ret |-> PyDict(<<Item(name, e.v)>>),
          raised |-> "none"]

\* the body shared by training_step, validation_step and test_step, after
\* _step has computed the loss result e: log it, then add preds and target
step_body(e, name, on_step) ==
    LET r == log_errs(e, name, on_step)
    IN IF r.raised # "none"
       THEN [logs |-> r.logs, outs |-> PyNone, raised |-> r.raised]
       ELSE IF r.ret.t # "dict"
       THEN \* a tensor has no update()
            [logs |-> r.logs, outs |-> PyNone, raised |-> "AttributeError"]
       ELSE [logs |-> r.logs,
             outs |-> PyDict(DictUpdate(DictUpdate(r.ret.items, "preds", Preds),
                                        "target", Target)),
             raised |-> "none"]

-----------------------------------------------------------------------------
(* EnhancedLightningModule._update_metrics and _step_end                    *)

\* what a call of a metric object does: it raises, or returns n elements
Raises(exc) == [t |-> "raise", exc |-> exc]
Returns(n) == [t |-> "value", n |-> n]

\* the tensor a metric object returns: its elements tell the object, the
\* target's type and the position apart
metric_value(obj, n, y) ==
    [i \in 1..n |-> Rat(100 * obj.spec + (IF y.dtype = "bool" THEN 10 ELSE 0) + i, 1)]

\* one invocation m(preds, y) as the model records it
Call(mode, k, y, result) == [bucket |-> "m" \o mode, key |-> k, target |-> y, result |-> result]

\* the variant of the try/except that does not call the metric again
metric_call_noretry(mode, k, b) ==
    [calls |-> <<Call(mode, k, Target, b.raw)>>, final |-> b.raw, y |-> Target]

\* try: val = m(preds, y)  except ValueError: val = m(preds, y.to(torch.bool))
\* for a metric object that behaves as b says
metric_call(mode, k, b) ==
    IF b.raw = Raises("ValueError")
    THEN [calls |-> <<Call(mode, k, Target, b.raw), Call(mode, k, ToBool(Target), b.bool)>>,
          final |-> b.bool, y |-> ToBool(Target)]
    ELSE [calls |-> <<Call(mode, k, Target, b.raw)>>, final |-> b.raw, y |-> Target]

\* idx = lambda i: i + 1 if k in ["v_hdf95", "v_masd"] else i
idx(k, i) == IF k \in {"v_hdf95", "v_masd"} THEN i + 1 ELSE i

\* the log_dict entries of one metric value, i running over range(len(val))
metric_entries(k, val, on_step) ==
    IF numel(val) > 1
    THEN [j \in 1..Len(val) |->
             LogEntry(k \o "/" \o ToString(idx(k, j - 1)), <<val[j]>>, FALSE, on_step, TRUE)]
    ELSE <<LogEntry(k, val, FALSE, on_step, TRUE)>>

RECURSIVE update_metrics_loop(_, _, _, _, _, _)
\* the loop of _update_metrics from the j-th metric of the bucket on
update_metrics_loop(bucket, beh, mode, j, lg, cl) ==
    IF j > Len(bucket) THEN [logs |-> lg, calls |-> cl, raised |-> "none"]
    ELSE LET k == bucket[j].key
             c == metric_call(mode, k, beh[j])
         IN IF c.final.t = "raise"
            THEN [logs |-> lg, calls |-> cl \o c.calls, raised |-> c.final.exc]
            ELSE update_metrics_loop(bucket, beh, mode, j + 1,
                     lg \o metric_entries(k, metric_value(bucket[j].val, c.final.n, c.y),
                                          mode = "test"),
                     cl \o c.calls)

\* EnhancedLightningModule._update_metrics(outs, mode)
update_metrics(mode, beh) ==
    update_metrics_loop(metrics["m" \o mode], beh, mode, 1, <<>>, <<>>)

\* EnhancedLightningModule._step_end(outs, name, mode)
step_end(o, name, mode, beh) ==
    LET reduced == PyDict(DictUpdate(o.items, name, mean(Lookup(o.items, name))))
        um == update_metrics(mode, beh)
    IN [outs |-> reduced, logs |-> um.logs, calls |-> um.calls, raised |-> um.raised]

\* ---- the inputs of the model
MaxLoss == 2
MaxVec == 2

LossElems == {Rat(1, 1), Rat(2, 1)}

LossTensors == {PyTensor(v) : v \in SeqsUpTo(LossElems, MaxLoss) \ {<<>>}}

LossDicts ==
    { PyDict(<<Item("loss", <<Rat(3, 1)>>), Item("kl", <<Rat(1, 1)>>)>>),
      PyDict(<<Item("kl", <<Rat(1, 1)>>)>>) }

LossResults == LossTensors \cup LossDicts

Outcomes == {Raises("ValueError"), Raises("RuntimeError")} \cup {Returns(n) : n \in 1..MaxVec}

Behaviours == [raw : Outcomes, bool : Outcomes]

StepMetricLists ==
    { <<>>,
      <<MetricSpec("Dice", "dsc")>>,
      <<MetricSpec("Accuracy", "acc"), MetricSpec("HausdorffDistance", "hdf95")>>,
      <<MetricSpec("SurfaceDistance", "masd"), MetricSpec("Dice", "dsc")>> }

\* a module constructed from a list of metric specifications, before a batch
Init ==
    /\ metricsArg \in StepMetricLists
    /\ ctorState = init_metrics(metricsArg).state
    /\ metrics = init_metrics(metricsArg).metrics
    /\ StepIdle /\ OptIdle /\ CkptIdle

\* the run is alive and the previous batch, if any, went through its step-end
Ready == raised = "none" /\ hook \notin {"training_step", "validation_step", "test_step"}

\* what a step hook does to the state
Step(h, name, on_step) ==
    /\ \E e \in LossResults :
          LET r == step_body(e, name, on_step)
          IN /\ errs' = e
             /\ logs' = r.logs
             /\ outs' = r.outs
             /\ raised' = r.raised
    /\ hook' = h
    /\ calls' = <<>>
    /\ UNCHANGED <<ckptVars, initVars, optVars>>

\* what a step-end hook does to the state, the bucket's metric objects
\* behaving in any way
StepEnd(h, name, mode) ==
    /\ \E beh \in [1..Len(metrics["m" \o mode]) -> Behaviours] :
          LET r == step_end(outs, name, mode, beh)
          IN /\ outs' = r.outs
             /\ logs' = logs \o r.logs
             /\ calls' = r.calls
             /\ raised' = r.raised
    /\ hook' = h
    /\ UNCHANGED <<errs, ckptVars, initVars, optVars>>

\* training_step(batch, batch_idx)
training_step ==
    /\ Ready
    /\ Step("training_step", "loss", TRUE)

\* validation_step(batch, batch_idx)
validation_step ==
    /\ Ready
    /\ Step("validation_step", "v_loss", FALSE)

\* test_step(batch, batch_idx)
test_step ==
    /\ Ready
    /\ Step("test_step", "loss", FALSE)

\* training_step_end(outs), called with what training_step returned
training_step_end ==
    /\ hook = "training_step" /\ raised = "none"
    /\ StepEnd("training_step_end", "loss", "train")

\* validation_step_end(outs)
validation_step_end ==
    /\ hook = "validation_step" /\ raised = "none"
    /\ StepEnd("validation_step_end", "v_loss", "val")

\* test_step_end(outs)
test_step_end ==
    /\ hook = "test_step" /\ raised = "none"
    /\ StepEnd("test_step_end", "loss", "test")

Next ==
    \/ training_step
    \/ validation_step
    \/ test_step
    \/ training_step_end
    \/ validation_step_end
    \/ test_step_end

Spec == Init /\ [][Next]_vars

-----------------------------------------------------------------------------
(* Claims about the steps and the step-ends                                 *)

Steps == {"training_step", "validation_step", "test_step"}
StepEnds == {"training_step_end", "validation_step_end", "test_step_end"}

\* the phase of a hook: the name of its loss and the mode of its bucket
LossName(h) == IF h \in {"validation_step", "validation_step_end"} THEN "v_loss" ELSE "loss"
ModeOf(h) == CASE h \in {"training_step", "training_step_end"} -> "train"
               [] h \in {"validation_step", "validation_step_end"} -> "val"
               [] h \in {"test_step", "test_step_end"} -> "test"

LossEntries == {i \in 1..Len(logs) : logs[i].key \in {"loss", "v_loss"}}

\* C4: when the loss tensor of a step has more than one element, the value
\* logged under loss / v_loss is the arithmetic mean of its elements.
C4_LoggedLossIsMean ==
    (hook \in Steps \cup StepEnds /\ errs.t = "tensor" /\ numel(errs.v) > 1)
        => /\ LossEntries # {}
           /\ \A i \in LossEntries : logs[i].value = mean(errs.v)

\* the entries the metrics of the last step-end logged
MetricEntries == {i \in 1..Len(logs) : ~logs[i].prog_bar}

\* the calls made on the metric held under key k, in order
CallsOf(k) == SelectSeq(calls, LAMBDA c : c.key = k)

\* the value the metric under key k gave at last, when it gave one
FinalCall(k) == CallsOf(k)[Len(CallsOf(k))]

DistanceKeys == {"hdf95", "masd", "v_hdf95", "v_masd"}

\* the keys claimed for a metric under key k that gave n elements
ClaimedKeys(k, n) ==
    IF n = 1 THEN {k}
    ELSE IF k \in DistanceKeys
         THEN {k \o "/" \o ToString(i) : i \in 1..n}
         ELSE {k \o "/" \o ToString(i) : i \in 0..(n - 1)}

\* C5: after a step-end, a metric that gave n > 1 elements has exactly the n
\* entries <key>/0 .. <key>/(n-1), or <key>/1 .. <key>/n when it is a distance
\* metric (hdf95, masd), in the validation and in the test bucket alike; a
\* metric that gave one element has the one entry <key>.
C5_VectorKeys ==
    (hook \in StepEnds /\ raised = "none")
        => LET bucket == metrics["m" \o ModeOf(hook)]
           IN /\ {logs[i].key : i \in MetricEntries}
                    = UNION {ClaimedKeys(bucket[j].key, FinalCall(bucket[j].key).result.n)
                                : j \in 1..Len(bucket)}
              /\ Cardinality(MetricEntries)
                    = Cardinality(UNION {ClaimedKeys(bucket[j].key,
                                                     FinalCall(bucket[j].key).result.n)
                                            : j \in 1..Len(bucket)})

\* the metric under the j-th key of the bucket was called as the try/except
\* prescribes: first with the target; once more, with the cast target, exactly
\* when the first call raised ValueError
CalledAsPrescribed(bucket, j) ==
    LET cs == CallsOf(bucket[j].key)
    IN /\ Len(cs) >= 1
       /\ cs[1].target = Target
       /\ Len(cs) = (IF cs[1].result = Raises("ValueError") THEN 2 ELSE 1)
       /\ Len(cs) = 2 => cs[2].target = ToBool(Target)
       /\ \A i \in 1..Len(cs) : cs[i].bucket = "m" \o ModeOf(hook)

\* every element of the value the j-th metric gave at last is logged
ValueLogged(bucket, j) ==
    LET c == FinalCall(bucket[j].key)
        val == metric_value(bucket[j].val, c.result.n, c.target)
    IN \A i \in 1..Len(val) :
          \E e \in MetricEntries :
              logs[e].value = (IF Len(val) > 1 THEN <<val[i]>> ELSE val)

\* the j-th metric was retried after a ValueError
Retried(bucket, j) ==
    /\ CallsOf(bucket[j].key) # <<>>
    /\ CallsOf(bucket[j].key)[1].result = Raises("ValueError")

\* C6 as claimed: a metric that rejects the target with a ValueError is called
\* once more with the cast target, and then the update succeeds: the retried
\* value is logged and the metrics after it are updated.
C6_RetrySucceeds ==
    hook \in StepEnds =>
        LET bucket == metrics["m" \o ModeOf(hook)]
        IN \A j \in 1..Len(bucket) :
              Retried(bucket, j) =>
                  /\ CalledAsPrescribed(bucket, j)
                  /\ FinalCall(bucket[j].key).result.t = "value"
                  /\ ValueLogged(bucket, j)
                  /\ j < Len(bucket) => CallsOf(bucket[j + 1].key) # <<>>

\* C6 amended: only metrics of the phase's bucket are called, each first with
\* the target and once more with the cast target exactly when the first call
\* raised ValueError; when the last call of a metric returns, its value is
\* logged and the next metric is called; when it raises (the retry too), the
\* step-end ends with that exception and no later metric is called.
C6_RetryOnce ==
    hook \in StepEnds =>
        LET bucket == metrics["m" \o ModeOf(hook)]
        IN /\ \A i \in 1..Len(calls) :
                 calls[i].bucket = "m" \o ModeOf(hook) /\ HasKey(bucket, calls[i].key)
           /\ \A j \in 1..Len(bucket) :
                 CallsOf(bucket[j].key) # <<>> =>
                     /\ CalledAsPrescribed(bucket, j)
                     /\ IF FinalCall(bucket[j].key).result.t = "value"
                        THEN /\ ValueLogged(bucket, j)
                             /\ j < Len(bucket) => CallsOf(bucket[j + 1].key) # <<>>
                        ELSE /\ raised = FinalCall(bucket[j].key).result.exc
                             /\ \A l \in (j + 1)..Len(bucket) : CallsOf(bucket[l].key) = <<>>
           /\ (bucket # <<>> => CallsOf(bucket[1].key) # <<>>)
           /\ (raised = "none" => \A j \in 1..Len(bucket) : CallsOf(bucket[j].key) # <<>>)

\* a validation step-end whose first metric was retried with the cast target
\* and returned a vector, and whose second metric was then called
C6_Witness ==
    /\ hook = "validation_step_end"
    /\ raised = "none"
    /\ Len(metrics.mval) = 2
    /\ Len(calls) = 3
    /\ calls[1].result = Raises("ValueError")
    /\ calls[2].target = ToBool(Target)
    /\ calls[2].result = Returns(2)
    /\ calls[3].key = metrics.mval[2].key

\* C9: when the loss result of a step is a mapping of named terms that has the
\* primary term, the step logs every term (v_-prefixed in validation) and
\* returns the primary term with the predictions and the target, as it does for
\* a scalar loss.
C9_MappingLoss ==
    (hook \in Steps /\ errs.t = "dict" /\ HasKey(errs.items, "loss"))
        => /\ raised = "none"
           /\ \A i \in 1..Len(errs.items) :
                 \E l \in 1..Len(logs) :
                     /\ logs[l].key = (IF hook = "validation_step" THEN "v_" ELSE "")
                                          \o errs.items[i].key
                     /\ logs[l].value = errs.items[i].val
           /\ outs.t = "dict"
           /\ Keys(outs.items) = {LossName(hook), "preds", "target"}
           /\ Lookup(outs.items, LossName(hook)) = Lookup(errs.items, "loss")

-----------------------------------------------------------------------------
(* EnhancedLightningModule.configure_optimizers                             *)

\* d.pop(k) leaves d without k
DictPop(d, k) == SelectSeq(d, LAMBDA it : it.key # k)

\* the classes of torch.optim that the model uses
optims == {"Adam", "SGD"}

\* the learning rate a class takes when none is given
DefaultLr(name) == Rat(1, 1000)

\* optims[name](self.parameters(), **kwargs): a keyword named params collides
\* with the positional parameter
optim_ctor(name, kwargs) ==
    IF HasKey(kwargs, "params")
    THEN [raised |-> "TypeError", opt |-> PyNone]
    ELSE [raised |-> "none",
          opt |-> [t |-> "optimizer", cls |-> name,
                   defaults_lr |-> IF HasKey(kwargs, "lr") THEN Lookup(kwargs, "lr")
                                   ELSE DefaultLr(name)]]

\* the number of warmup steps given to LinearCosineLR
WarmupSteps == 100

\* LinearCosineLR(opt, lr, 100, tot_steps)
LinearCosineLR(opt, lr, warmup, tot_steps) ==
    [t |-> "LinearCosineLR", optimizer |-> opt, lr |-> lr, warmup |-> warmup,
     tot_steps |-> tot_steps]

\* the variant that reads the name and leaves it in the mapping
take_name_keep(c) == c

\* self.optimizer_config.pop("name"): the mapping afterwards
take_name(c) == DictPop(c, "name")

\* EnhancedLightningModule.configure_optimizers(): the mapping as the call
\* leaves it, the exception it ends with, the optimizer it constructed and
\* what it returns
configure_optimizers_body(c, lr_scheduler, epochs, batches) ==
    IF ~HasKey(c, "name")
    THEN [cfg |-> c, raised |-> "KeyError", opt |-> PyNone, ret |-> PyNone]
    ELSE LET name == Lookup(c, "name")
             rest == take_name(c)
         IN IF name \notin optims
            THEN [cfg |-> rest, raised |-> "KeyError", opt |-> PyNone, ret |-> PyNone]
            ELSE LET o == optim_ctor(name, rest)
                 IN IF o.raised # "none"
                    THEN [cfg |-> rest, raised |-> o.raised, opt |-> PyNone, ret |-> PyNone]
                    ELSE IF lr_scheduler
                    THEN LET tot_steps == epochs * batches
                             lr == o.opt.defaults_lr
                             lrs == LinearCosineLR(o.opt, lr, WarmupSteps, tot_steps)
                         IN [cfg |-> rest, raised |-> "none", opt |-> o.opt,
                             ret |-> [optimizers |-> <<o.opt>>,
                                      schedulers |-> <<[scheduler |-> lrs, interval |-> "step"]>>]]
                    ELSE \* lrs was never bound
                         [cfg |-> rest, raised |-> "UnboundLocalError", opt |-> o.opt,
                          ret |-> PyNone]

\* ---- the inputs of the model
MaxModules == 2
MaxCalls == 3

\* optimizer={"name": "Adam", "params": {}}, the default of __init__
DefaultConfig == <<Item("name", "Adam"), Item("params", <<>>)>>

UserConfigs ==
    { <<Item("name", "Adam")>>,
      <<Item("name", "SGD"), Item("lr", Rat(1, 10))>>,
      <<Item("name", "NoSuchOptim"), Item("lr", Rat(1, 10))>> }

CfgIds == {"default", "user"}

ModuleKinds == [optimizer_config : CfgIds, lr_scheduler : BOOLEAN]

EpochChoices == {2, 3}
BatchChoices == {5}

\* modules constructed with the default mapping or with the caller's mapping
InitOptim ==
    /\ \E u \in UserConfigs : cfg = [id \in CfgIds |-> IF id = "default" THEN DefaultConfig ELSE u]
    /\ modules \in SeqsUpTo(ModuleKinds, MaxModules) \ {<<>>}
    /\ history = <<>>
    /\ max_epochs \in EpochChoices
    /\ nb_batches \in BatchChoices
    /\ InitIdle /\ StepIdle /\ CkptIdle

\* the trainer calls configure_optimizers of module m
configure_optimizers ==
    /\ Len(history) < MaxCalls
    /\ \E m \in 1..Len(modules) :
          LET id == modules[m].optimizer_config
              r == configure_optimizers_body(cfg[id], modules[m].lr_scheduler,
                                             max_epochs, nb_batches)
          IN /\ cfg' = [cfg EXCEPT ![id] = r.cfg]
             /\ history' = Append(history,
                               [module |-> m, config |-> id, before |-> cfg[id],
                                lr_scheduler |-> modules[m].lr_scheduler,
                                raised |-> r.raised, opt |-> r.opt, ret |-> r.ret])
    /\ UNCHANGED <<modules, max_epochs, nb_batches, ckptVars, initVars, stepVars>>

\* the caller puts a name back into a mapping that lost it
ResupplyName ==
    /\ \E id \in CfgIds, n \in optims :
          /\ ~HasKey(cfg[id], "name")
          /\ cfg' = [cfg EXCEPT ![id] = DictUpdate(@, "name", n)]
    /\ UNCHANGED <<modules, history, max_epochs, nb_batches, ckptVars, initVars, stepVars>>

NextOptim == configure_optimizers \/ ResupplyName

SpecOptim == InitOptim /\ [][NextOptim]_vars

-----------------------------------------------------------------------------
(* Claims about configure_optimizers                                        *)

\* C7: a configure_optimizers call that succeeds leaves the mapping (the one
\* object every module given it holds) without the name key; a call on a
\* mapping without the name key, from whichever module, ends with a KeyError,
\* constructs no optimizer and leaves the mapping as it is; a name that is no
\* optimizer ends with a KeyError too.
C7_NameConsumed ==
    [][ Len(history') = Len(history) + 1 =>
          LET c == history'[Len(history')]
          IN /\ c.before = cfg[c.config]
             /\ c.raised = "none" =>
                   /\ HasKey(c.before, "name")
                   /\ ~HasKey(cfg'[c.config], "name")
                   /\ \A m \in 1..Len(modules) :
                         modules[m].optimizer_config = c.config
                             => ~HasKey(cfg'[modules[m].optimizer_config], "name")
             /\ ~HasKey(c.before, "name") =>
                   /\ c.raised = "KeyError"
                   /\ c.opt = PyNone
                   /\ cfg'[c.config] = c.before
             /\ (HasKey(c.before, "name") /\ Lookup(c.before, "name") \notin optims) =>
                   /\ c.raised = "KeyError"
                   /\ c.opt = PyNone ]_vars

\* one module configured its optimizer, then another module holding the same
\* mapping failed with a KeyError
C7_Witness ==
    /\ Len(history) = 2
    /\ history[1].raised = "none"
    /\ history[2].raised = "KeyError"
    /\ history[2].module # history[1].module
    /\ history[2].config = history[1].config
    /\ ~HasKey(history[2].before, "name")

\* C8: a configure_optimizers call with the name of an optimizer, whose
\* optimizer was constructed, returns that optimizer and a schedule descriptor
\* of interval "step" whose scheduler the call constructed, whether rate
\* scheduling is enabled or not; when it is enabled the scheduler is the
\* LinearCosineLR of max_epochs x batches total steps, 100 warmup steps and the
\* optimizer's default learning rate.
C8_ReturnsDescriptor ==
    \A i \in 1..Len(history) :
        LET c == history[i]
        IN (c.opt # PyNone) =>
              /\ c.raised = "none"
              /\ c.ret # PyNone
              /\ c.ret.optimizers = <<c.opt>>
              /\ Len(c.ret.schedulers) = 1
              /\ c.ret.schedulers[1].interval = "step"
              /\ c.ret.schedulers[1].scheduler.optimizer = c.opt
              /\ c.lr_scheduler =>
                    c.ret.schedulers[1].scheduler
                        = LinearCosineLR(c.opt, c.opt.defaults_lr, 100, max_epochs * nb_batches)

====
